---- MODULE Spec2Model ----
(***************************************************************************)
(* The audit service: the generic organization-scoped data-access layer    *)
(* (BaseDal: paginatedFind, find, findById, create, update, delete) over a *)
(* key-ordered document store, and AuditService.createAuditLog, which      *)
(* resolves up to three optional references concurrently and then writes   *)
(* the audit record.                                                       *)
(*                                                                         *)
(* A table is a sequence of entities in the store's key order.  Fresh      *)
(* identifiers (uuid.v4) are drawn from a counter, so key order is the     *)
(* order of creation.  Timestamps (Date.now) are read from a clock that    *)
(* advances with every write.                                              *)
(*                                                                         *)
(* The store client and the helpers of @bondsports/general are libraries:  *)
(*   - a query evaluates at most limit items of the partition, then        *)
(*     applies the filter, and returns the last evaluated key when it      *)
(*     stopped at the limit;                                               *)
(*   - deletedAt of a live entity is unset (the schema's default null      *)
(*     stores nothing), and both deletedAt filters select the live ones;   *)
(*   - $SET merges the payload's fields into the item; the key (id) is     *)
(*     not among the fields a payload may $SET;                            *)
(*   - promiseAllSettled waits for all its promises; whether it hands a    *)
(*     rejected one over as no value or throws it is not known, and the    *)
(*     model carries both (settle).                                        *)
(***************************************************************************)
EXTENDS Integers, Sequences, FiniteSets, TLC

\* ---- bounds of the model
MaxIds == 3
MaxTime == 3
MaxPage == 2

\* ---- values
Unset == 0          \* deletedAt: default null
NoId == 0           \* an absent identifier (lastId, categoryId, ...)
NoName == "-"       \* an absent string field of a payload
Orgs == {1, 2}
RefKinds == {"category", "subCategory", "actionType"}
Kinds == RefKinds \cup {"auditLog"}
DalKinds == {"category"}
Ids == 1..MaxIds
PageSizes == 1..MaxPage

VARIABLES
    store,      \* store[k]: the table of model k, in key order
    prev,       \* history: the store before the last call
    nextId,     \* the next identifier uuid.v4() hands out
    now,        \* the clock
    createdBy,  \* history: the organization create() was called with, per id
    last,       \* the last completed call and what the caller observed
    walk,       \* a client paging through paginatedFind
    call,       \* the createAuditLog call in flight
    settle      \* how promiseAllSettled hands a rejected lookup to its caller

vars == <<store, prev, nextId, now, createdBy, last, walk, call, settle>>

\* ---- payloads: a field the caller did not supply holds its absent value
AbsentValue(f) == IF f = "name" THEN NoName ELSE 0

Supplied(data) == {f \in DOMAIN data : data[f] # AbsentValue(f)}

NoData == [id |-> NoId, organizationId |-> 0, name |-> NoName, deletedAt |-> 0]

\* create: the payload may carry an id (a collision with the first entity is
\* tried) and an organizationId of its own
CreatePayloads ==
    [id : {NoId, 1}, organizationId : {0} \cup Orgs, name : {"a"}, deletedAt : {0}]

\* update: any subset of the fields a caller may $SET (id is the table's key)
UpdatePayloads ==
    [id : {NoId}, organizationId : {0} \cup Orgs, name : {NoName, "b"},
     deletedAt : {0, 1}]

\* ---- the store client
Min(a, b) == IF a < b THEN a ELSE b

Live(e) == e.deletedAt = Unset

OrgPartition(t, organizationId) ==
    SelectSeq(t, LAMBDA e : e.organizationId = organizationId)

\* query(...).startAt(key): the items of the partition strictly after the key
StartAt(part, lastId) ==
    IF lastId # NoId THEN SelectSeq(part, LAMBDA e : e.id > lastId) ELSE part

\* query(...).limit(n): the store evaluates at most n items, then filters
Limit(items, n) == SubSeq(items, 1, Min(n, Len(items)))

\* response.lastKey: set when the evaluation stopped at the limit
LastKey(items, n) == IF Len(items) >= n THEN items[n].id ELSE NoId

ById(t, id) == SelectSeq(t, LAMBDA e : e.id = id)

\* faulty variant: the stored item is replaced by the payload instead of merged
ModelPut(t, id, data, time) ==
    [i \in 1..Len(t) |->
        IF t[i].id = id
        THEN [f \in DOMAIN t[i] |->
                IF f \in Supplied(data) THEN data[f]
                ELSE IF f \in {"createdAt", "updatedAt"} THEN time
                ELSE IF f \in {"id", "organizationId"} THEN t[i][f]
                ELSE AbsentValue(f)]
        ELSE t[i]]

\* faulty variant: the merge re-applies the schema's default to deletedAt
ModelUpdateRevive(t, id, data, time) ==
    [i \in 1..Len(t) |->
        IF t[i].id = id
        THEN [f \in DOMAIN t[i] |->
                IF f \in Supplied(data) THEN data[f]
                ELSE IF f = "updatedAt" THEN time
                ELSE IF f = "deletedAt" THEN Unset
                ELSE t[i][f]]
        ELSE t[i]]

\* model.update(entity, {$SET: data}): a merge into the stored item
ModelUpdate(t, id, data, time) ==
    [i \in 1..Len(t) |->
        IF t[i].id = id
        THEN [f \in DOMAIN t[i] |->
                IF f \in Supplied(data) THEN data[f]
                ELSE IF f = "updatedAt" THEN time
                ELSE t[i][f]]
        ELSE t[i]]

\* new this.model({...}).save(): timestamps and the schema's defaults
Save(t, doc, time) ==
    Append(t, [id |-> doc.id, organizationId |-> doc.organizationId,
               name |-> doc.name, createdAt |-> time, updatedAt |-> time,
               deletedAt |-> doc.deletedAt])

\* ---- BaseDal
\* faulty variant: the cursor is the last entity returned, set when the page is full
PaginatedFindCursorOfData(t, organizationId, itemsPerPage, lastId) ==
    LET rest == StartAt(OrgPartition(t, organizationId), lastId)
        data == SelectSeq(Limit(rest, itemsPerPage), Live)
    IN  [lastId |-> IF Len(data) >= itemsPerPage THEN data[Len(data)].id ELSE NoId,
         data |-> data]

PaginatedFind(t, organizationId, itemsPerPage, lastId) ==
    LET rest == StartAt(OrgPartition(t, organizationId), lastId)
        evaluated == Limit(rest, itemsPerPage)
    IN  [lastId |-> LastKey(rest, itemsPerPage),
         data |-> SelectSeq(evaluated, Live)]

Find(t, organizationId) == SelectSeq(OrgPartition(t, organizationId), Live)

\* faulty variant: no check of the organization
FindByIdAnyOrganization(t, organizationId, id) ==
    LET response == Limit(ById(t, id), 1)
    IN  IF Len(response) = 0 THEN [res |-> "none", out |-> <<>>]
        ELSE [res |-> "ok", out |-> response]

\* faulty variant: soft-deleted entities are not found
FindByIdLiveOnly(t, organizationId, id) ==
    LET response == Limit(SelectSeq(ById(t, id), Live), 1)
    IN  IF Len(response) = 0 THEN [res |-> "none", out |-> <<>>]
        ELSE IF response[1].organizationId # organizationId
             THEN [res |-> "NotOfOrganization", out |-> <<>>]
             ELSE [res |-> "ok", out |-> response]

FindById(t, organizationId, id) ==
    LET response == Limit(ById(t, id), 1)
    IN  IF Len(response) = 0 THEN [res |-> "none", out |-> <<>>]
        ELSE IF response[1].organizationId # organizationId
             THEN [res |-> "NotOfOrganization", out |-> <<>>]
             ELSE [res |-> "ok", out |-> response]

NewEntity(organizationId, data, id) ==
    [data EXCEPT !.id = id, !.organizationId = organizationId]

UpdateCall(t, organizationId, id, data, time) ==
    LET found == FindById(t, organizationId, id)
    IN  IF found.res = "NotOfOrganization"
        THEN [res |-> "NotOfOrganization", out |-> <<>>, table |-> t]
        ELSE IF found.res = "none"
        THEN [res |-> "NotFound", out |-> <<>>, table |-> t]
        ELSE LET t2 == ModelUpdate(t, id, data, time)
             IN  [res |-> "ok", out |-> ById(t2, id), table |-> t2]

DeleteData(time) == [NoData EXCEPT !.deletedAt = time]

\* ---- what the caller of a completed call observed
Observed(op, k, org, id, p, data, res, out, lastId, pre) ==
    [op |-> op, k |-> k, org |-> org, id |-> id, p |-> p, data |-> data,
     res |-> res, out |-> out, lastId |-> lastId, pre |-> pre]

NoCall == Observed("none", "category", 0, NoId, 0, NoData, "none", <<>>, NoId, <<>>)

NoWalk == [pc |-> "idle", k |-> "category", org |-> 0, p |-> 0, lastId |-> NoId,
           acc |-> <<>>, steps |-> 0, maxLen |-> 0, dirty |-> FALSE]

\* a write to the table a walk reads or has read
Disturb(k, organizationId) ==
    IF walk.pc # "idle" /\ walk.k = k THEN [walk EXCEPT !.dirty = TRUE] ELSE walk

\* ---- AuditService.createAuditLog
ArgOrder == <<"category", "subCategory", "actionType">>

NoDto == [k \in RefKinds |-> NoId]

\* slots: per reference, "skipped", "pending" or what findById ended with;
\* order: the references in the order their lookups completed; before: the
\* audit records stored when the call began
NoAudit == [pc |-> "idle", org |-> 0, dto |-> NoDto,
            slots |-> [k \in RefKinds |-> "skipped"], order |-> <<>>,
            before |-> 0]

\* the identifiers a caller tries as references
RefIds == {NoId, 1}

\* call keeps a call that has returned until the next call of a writer
Touch(k) == IF call.pc = "done" THEN NoAudit ELSE call

\* faulty variant: the lookup is issued whether or not the key is supplied
UseUnconditionalPromise(id) == "pending"

\* useConditionalPromise(fn, condition): fn is called only when condition holds
UseConditionalPromise(id) == IF id # NoId THEN "pending" ELSE "skipped"

\* the rejections of findById
Rejected == {"NotOfOrganization"}

\* faulty variant: the helper ends at the first rejection
FirstRejectionOrAllSettled(slots) ==
    \/ \A k \in RefKinds : slots[k] # "pending"
    \/ \E k \in RefKinds : slots[k] \in Rejected

\* promiseAllSettled(...): ends when every promise has settled
AllSettled(slots) == \A k \in RefKinds : slots[k] # "pending"

FirstOf(hits) == IF Len(hits) = 0 THEN "none" ELSE hits[1]

\* the checks after the await, in the order of the code; mode "rethrow": the
\* helper throws the first rejection of its arguments; mode "values": a
\* rejected lookup yields no value
OutcomeIn(checkOrder, slots, dto, mode) ==
    LET thrown == FirstOf(SelectSeq(ArgOrder, LAMBDA k : slots[k] \in Rejected))
        unresolved ==
            FirstOf(SelectSeq(checkOrder,
                              LAMBDA k : slots[k] \notin {"ok", "skipped", "pending"}
                                         /\ dto[k] # NoId))
    IN  IF mode = "rethrow" /\ thrown # "none"
        THEN [res |-> slots[thrown], ref |-> thrown, id |-> dto[thrown]]
        ELSE IF unresolved # "none"
        THEN [res |-> "NotFound", ref |-> unresolved, id |-> dto[unresolved]]
        ELSE [res |-> "ok", ref |-> "none", id |-> NoId]

\* faulty variant: the first failure in the order the lookups completed
OutcomeByCompletion(slots, order, dto, mode) ==
    OutcomeIn(order \o ArgOrder, slots, dto, mode)

Outcome(slots, order, dto, mode) == OutcomeIn(ArgOrder, slots, dto, mode)

\* the three lookups against the store as it is
Resolve(s, org, dto) ==
    [k \in RefKinds |->
        IF UseConditionalPromise(dto[k]) = "skipped" THEN "skipped"
        ELSE FindById(s[k], org, dto[k]).res]

Init ==
    /\ store = [k \in Kinds |-> <<>>]
    /\ prev = [k \in Kinds |-> <<>>]
    /\ nextId = 1
    /\ now = 0
    /\ createdBy = [i \in Ids |-> 0]
    /\ last = NoCall
    /\ walk = NoWalk
    /\ call = NoAudit
    /\ settle = "values"

\* ---- the operations of BaseDal, each a whole call
DoPaginatedFind(k, org, p, lastId) ==
    /\ LET r == PaginatedFind(store[k], org, p, lastId)
       IN  last' = Observed("paginatedFind", k, org, lastId, p, NoData, "ok", r.data,
                            r.lastId, <<>>)
    /\ prev' = store
    /\ UNCHANGED <<store, nextId, now, createdBy, walk, call, settle>>

DoFind(k, org) ==
    /\ last' = Observed("find", k, org, NoId, 0, NoData, "ok", Find(store[k], org),
                        NoId, <<>>)
    /\ prev' = store
    /\ UNCHANGED <<store, nextId, now, createdBy, walk, call, settle>>

DoFindById(k, org, id) ==
    /\ LET r == FindById(store[k], org, id)
       IN  last' = Observed("findById", k, org, id, 0, NoData, r.res, r.out, NoId,
                            ById(store[k], id))
    /\ prev' = store
    /\ UNCHANGED <<store, nextId, now, createdBy, walk, call, settle>>

DoCreate(k, org, data) ==
    /\ nextId <= MaxIds
    /\ now < MaxTime
    /\ LET t2 == Save(store[k], NewEntity(org, data, nextId), now + 1)
       IN  /\ store' = [store EXCEPT ![k] = t2]
           /\ last' = Observed("create", k, org, nextId, 0, data, "ok", ById(t2, nextId),
                               NoId, <<>>)
    /\ prev' = store
    /\ now' = now + 1
    /\ nextId' = nextId + 1
    /\ createdBy' = [createdBy EXCEPT ![nextId] = org]
    /\ walk' = Disturb(k, org)
    /\ call' = Touch(k)
    /\ UNCHANGED settle

DoUpdate(k, org, id, data) ==
    /\ now < MaxTime
    /\ LET r == UpdateCall(store[k], org, id, data, now + 1)
       IN  /\ last' = Observed("update", k, org, id, 0, data, r.res, r.out, NoId,
                               ById(store[k], id))
           /\ store' = [store EXCEPT ![k] = r.table]
           /\ now' = IF r.res = "ok" THEN now + 1 ELSE now
           /\ walk' = IF r.res = "ok" THEN Disturb(k, org) ELSE walk
    /\ prev' = store
    /\ call' = Touch(k)
    /\ UNCHANGED <<nextId, createdBy, settle>>

DoDelete(k, org, id) ==
    /\ now < MaxTime
    /\ LET r == UpdateCall(store[k], org, id, DeleteData(now + 1), now + 1)
       IN  /\ last' = Observed("delete", k, org, id, 0, NoData,
                               IF r.res = "ok" THEN "true" ELSE r.res, <<>>, NoId,
                               ById(store[k], id))
           /\ store' = [store EXCEPT ![k] = r.table]
           /\ now' = IF r.res = "ok" THEN now + 1 ELSE now
           /\ walk' = IF r.res = "ok" THEN Disturb(k, org) ELSE walk
    /\ prev' = store
    /\ call' = Touch(k)
    /\ UNCHANGED <<nextId, createdBy, settle>>

DalOps == {"paginatedFind", "find", "findById", "create", "update", "delete"}

\* a request to the store is rejected while the call awaits it: no operation
\* catches it, the caller gets the store's error and nothing is written
StoreRejects(op, k, org) ==
    /\ last' = Observed(op, k, org, NoId, 0, NoData, "StoreError", <<>>, NoId, <<>>)
    /\ prev' = store
    /\ UNCHANGED <<store, nextId, now, createdBy, walk, call, settle>>

\* ---- a client reading every page: the first call carries no lastId, each
\* later call the lastId the previous page returned, until none is returned
WalkPage(w, r) ==
    [w EXCEPT !.pc = IF r.lastId # NoId THEN "walking" ELSE "done",
              !.lastId = r.lastId,
              !.acc = @ \o r.data,
              !.steps = @ + 1,
              !.maxLen = IF Len(r.data) > @ THEN Len(r.data) ELSE @]

WalkBegin(k, org, p) ==
    /\ walk.pc # "walking"
    /\ LET r == PaginatedFind(store[k], org, p, NoId)
       IN  /\ walk' = WalkPage([NoWalk EXCEPT !.k = k, !.org = org, !.p = p], r)
           /\ last' = Observed("paginatedFind", k, org, NoId, p, NoData, "ok",
                               r.data, r.lastId, <<>>)
    /\ prev' = store
    /\ UNCHANGED <<store, nextId, now, createdBy, call, settle>>

WalkContinue ==
    /\ walk.pc = "walking"
    /\ LET r == PaginatedFind(store[walk.k], walk.org, walk.p, walk.lastId)
       IN  /\ walk' = WalkPage(walk, r)
           /\ last' = Observed("paginatedFind", walk.k, walk.org, walk.lastId, walk.p,
                               NoData, "ok", r.data, r.lastId, <<>>)
    /\ prev' = store
    /\ UNCHANGED <<store, nextId, now, createdBy, call, settle>>

CreateAuditLogBegin(org, dto) ==
    /\ call.pc # "waiting"
    /\ call' = [NoAudit EXCEPT !.pc = "waiting", !.org = org, !.dto = dto,
                               !.slots = [k \in RefKinds |-> UseConditionalPromise(dto[k])],
                               !.before = Len(store["auditLog"])]
    /\ last' = Observed("createAuditLog", "auditLog", org, NoId, 0, NoData, "pending",
                        <<>>, NoId, <<>>)
    /\ prev' = store
    /\ UNCHANGED <<store, nextId, now, createdBy, walk, settle>>

\* one of the lookups issued by the call completes
LookupSettles(k) ==
    /\ call.pc = "waiting"
    /\ call.slots[k] = "pending"
    /\ LET r == FindById(store[k], call.org, call.dto[k])
       IN  /\ call' = [call EXCEPT !.slots[k] = r.res, !.order = Append(@, k)]
           /\ last' = Observed("findById", k, call.org, call.dto[k], 0, NoData, r.res,
                               r.out, NoId, ById(store[k], call.dto[k]))
    /\ prev' = store
    /\ UNCHANGED <<store, nextId, now, createdBy, walk, settle>>

\* the await returns: the checks, then auditLogDal.create.  The caller sees
\* the error with the reference and identifier it names (k, id), or the
\* record created; p counts the lookups that were made
CreateAuditLogEnds(storeFails) ==
    /\ call.pc = "waiting"
    /\ AllSettled(call.slots)
    /\ call' = [call EXCEPT !.pc = "done"]
    /\ prev' = store
    /\ LET o == Outcome(call.slots, call.order, call.dto, settle)
       IN  IF o.res # "ok"
           THEN /\ ~storeFails
                /\ last' = Observed("createAuditLog", o.ref, call.org, o.id,
                                    Len(call.order), NoData, o.res, <<>>, NoId, <<>>)
                /\ UNCHANGED <<store, nextId, now, createdBy>>
           ELSE IF storeFails
           THEN /\ last' = Observed("createAuditLog", "auditLog", call.org, NoId,
                                    Len(call.order), NoData, "StoreError", <<>>, NoId, <<>>)
                /\ UNCHANGED <<store, nextId, now, createdBy>>
           ELSE /\ nextId <= MaxIds
                /\ now < MaxTime
                /\ LET t2 == Save(store["auditLog"],
                                  NewEntity(call.org, [NoData EXCEPT !.name = "a"], nextId),
                                  now + 1)
                   IN  /\ store' = [store EXCEPT !["auditLog"] = t2]
                       /\ last' = Observed("createAuditLog", "auditLog", call.org, nextId,
                                           Len(call.order), NoData, "ok", ById(t2, nextId),
                                           NoId, <<>>)
                /\ nextId' = nextId + 1
                /\ now' = now + 1
                /\ createdBy' = [createdBy EXCEPT ![nextId] = call.org]
    /\ UNCHANGED <<walk, settle>>

\* ---- the data-access layer under arbitrary callers
Next ==
    \/ \E k \in DalKinds, org \in Orgs, p \in PageSizes, lastId \in {NoId} \cup Ids :
          DoPaginatedFind(k, org, p, lastId)
    \/ \E k \in DalKinds, org \in Orgs : DoFind(k, org)
    \/ \E k \in DalKinds, org \in Orgs, id \in Ids : DoFindById(k, org, id)
    \/ \E k \in DalKinds, org \in Orgs, data \in CreatePayloads : DoCreate(k, org, data)
    \/ \E k \in DalKinds, org \in Orgs, id \in Ids, data \in UpdatePayloads :
          DoUpdate(k, org, id, data)
    \/ \E k \in DalKinds, org \in Orgs, id \in Ids : DoDelete(k, org, id)
    \/ \E op \in DalOps, k \in DalKinds, org \in Orgs : StoreRejects(op, k, org)

Spec == Init /\ [][Next]_vars

\* ---- a paging client beside writers of the same table
WalkNext ==
    \/ \E org \in Orgs : DoCreate("category", org, [NoData EXCEPT !.name = "a"])
    \/ \E org \in Orgs, id \in Ids : DoDelete("category", org, id)
    \/ \E org \in Orgs, p \in PageSizes : WalkBegin("category", org, p)
    \/ WalkContinue

WalkSpec == Init /\ [][WalkNext]_vars

\* ---- createAuditLog beside writers of the reference tables; the helper's
\* handling of a rejected lookup is fixed per build, either way
AuditInit ==
    /\ store = [k \in Kinds |-> <<>>]
    /\ prev = [k \in Kinds |-> <<>>]
    /\ nextId = 1
    /\ now = 0
    /\ createdBy = [i \in Ids |-> 0]
    /\ last = NoCall
    /\ walk = NoWalk
    /\ call = NoAudit
    /\ settle \in {"values", "rethrow"}

\* the reference tables are at rest while a call is in flight, and its
\* lookups are answered: what a rejected request turns into is the helper's
AuditNext ==
    \/ /\ call.pc # "waiting"
       /\ \E k \in RefKinds, org \in Orgs : DoCreate(k, org, [NoData EXCEPT !.name = "a"])
    \/ /\ call.pc # "waiting"
       /\ \E k \in RefKinds, org \in Orgs, id \in Ids : DoDelete(k, org, id)
    \/ \E org \in Orgs, dto \in [RefKinds -> RefIds] : CreateAuditLogBegin(org, dto)
    \/ \E k \in RefKinds : LookupSettles(k)
    \/ \E f \in BOOLEAN : CreateAuditLogEnds(f)

AuditSpec == AuditInit /\ [][AuditNext]_vars

\* ---- helpers of the properties
Foreign(c) == Len(c.pre) = 1 /\ c.pre[1].organizationId # c.org
Own(c) == Len(c.pre) = 1 /\ c.pre[1].organizationId = c.org
Missing(c) == Len(c.pre) = 0
Without(t, id) == SelectSeq(t, LAMBDA e : e.id # id)
IdsOf(entities) == {entities[i].id : i \in 1..Len(entities)}
Cursors == {NoId} \cup Ids

\* every entity any default query of any organization returns
Listed(t) ==
    UNION {IdsOf(Find(t, o)) : o \in Orgs} \cup
    UNION {IdsOf(PaginatedFind(t, o, p, c).data) : o \in Orgs, p \in PageSizes, c \in Cursors}

\* C1: an entity create() made for one organization is never in the result of
\* find, paginatedFind or findById called for another organization.
C1_OrganizationIsolation ==
    last.op \in {"find", "paginatedFind", "findById"} =>
        \A i \in 1..Len(last.out) : createdBy[last.out[i].id] = last.org

\* the outcome of the same call had the store held no entity with that id
OutcomeIfMissing(c) ==
    IF c.op = "findById"
    THEN FindById(Without(store[c.k], c.id), c.org, c.id).res
    ELSE UpdateCall(Without(store[c.k], c.id), c.org, c.id, c.data, now).res

C4_DeleteIdempotent ==
    (last.op = "delete" /\ last.res # "StoreError" /\ Own(last)) =>
        /\ last.res = "true"
        /\ last.id \notin Listed(store[last.k])
        /\ ~Live(last.pre[1]) =>
              /\ \A o \in Orgs : Find(store[last.k], o) = Find(prev[last.k], o)
              /\ \A o \in Orgs, p \in PageSizes, c \in Cursors :
                    PaginatedFind(store[last.k], o, p, c)
                        = PaginatedFind(prev[last.k], o, p, c)

C4_Witness ==
    last.op = "delete" /\ last.res = "true" /\ Own(last) /\ ~Live(last.pre[1])

ValidationErrors == {"NotFound", "NotOfOrganization"}
Ended == call.pc = "done" /\ last.op = "createAuditLog" /\ last.res # "StoreError"
Unresolved(k) ==
    call.dto[k] # NoId /\ FindById(store[k], call.org, call.dto[k]).res # "ok"
Persisted == Len(store["auditLog"]) - call.before

\* C5: createAuditLog fails with a validation error exactly when a supplied
\* reference does not resolve in the organization; the error names such a
\* reference and its identifier and no record is stored.  With no reference
\* supplied no lookup is made and one record is stored for the organization.
C5_ConditionalResolution ==
    Ended =>
        /\ last.res \in ValidationErrors <=> \E k \in RefKinds : Unresolved(k)
        /\ last.res \in ValidationErrors =>
              /\ last.k \in RefKinds
              /\ Unresolved(last.k)
              /\ last.id = call.dto[last.k]
              /\ Persisted = 0
        /\ (\A k \in RefKinds : call.dto[k] = NoId) =>
              /\ call.order = <<>>
              /\ last.res = "ok"
        /\ last.res = "ok" =>
              /\ Persisted = 1
              /\ last.out = <<store["auditLog"][Len(store["auditLog"])]>>
              /\ last.out[1].organizationId = call.org
        /\ \A k \in RefKinds : call.dto[k] = NoId <=> call.slots[k] = "skipped"

C5_Witness ==
    /\ Ended /\ last.res = "NotFound" /\ last.k = "category" /\ last.id = 1
    /\ call.order = <<"category">>

\* a supplied reference that resolves to a soft-deleted entity
RefersToDeleted(k) ==
    /\ call.dto[k] # NoId
    /\ LET r == FindById(store[k], call.org, call.dto[k])
       IN  r.res = "ok" /\ ~Live(r.out[1])

\* C6: a call that supplies a reference to a soft-deleted entity of the
\* organization fails with a validation error and stores no record.
C6_ReferencesMustBeLive ==
    (Ended /\ \E k \in RefKinds : RefersToDeleted(k)) =>
        /\ last.res \in ValidationErrors
        /\ Persisted = 0

Range(seq) == {seq[i] : i \in 1..Len(seq)}

\* C10: the requested lookups are all in flight together, the call ends
\* only after each of them has completed, and what it ends with is what the
\* store and the payload give whatever the order of the completions.
C10_WaitsForAllOrderIndependent ==
    /\ (call.pc = "waiting" /\ call.order = <<>>) =>
          \A k \in RefKinds : call.dto[k] # NoId => call.slots[k] = "pending"
    /\ Ended =>
          /\ \A k \in RefKinds : call.slots[k] # "pending"
          /\ Range(call.order) = {k \in RefKinds : call.dto[k] # NoId}
          /\ LET o == Outcome(Resolve(store, call.org, call.dto), ArgOrder, call.dto, settle)
             IN  /\ last.res = o.res
                 /\ o.res # "ok" => (last.k = o.ref /\ last.id = o.id)

C10_Witness ==
    /\ Ended /\ last.res \in ValidationErrors
    /\ call.order = <<"actionType", "subCategory", "category">>
    /\ \A k \in RefKinds : Unresolved(k)
    /\ call.slots["category"] # call.slots["subCategory"]

====
